---- MODULE Spec2Model ----
(***************************************************************************)
(* HEMT power-supply helpers of experiments/InstrumentSandbox.ipynb:       *)
(* ramp_voltage, reset_HEMT_settings, turn_on_HEMTS and turn_off_HEMTS,    *)
(* run one after another by the operator of the notebook against one       *)
(* power supply.                                                           *)
(*                                                                         *)
(* Voltages are integers in units of 0.01 V (so 1.1 V is 110 and the       *)
(* default v_step of 0.01 V is 1); over-current limits are in mA.  The     *)
(* arithmetic of np.arange is exact on that grid; the rounding of binary   *)
(* floating point is outside the model.  The print calls and the value of  *)
(* delay change no state and are left out; monitor_IV_curve is never       *)
(* reached (turn_on_HEMTS raises before it) and is not modelled.           *)
(*                                                                         *)
(* A call whose arguments do not fit the parameters of the def raises      *)
(* TypeError, as in Python: this is what the first statements of           *)
(* turn_on_HEMTS and turn_off_HEMTS do.                                    *)
(***************************************************************************)
EXTENDS Integers, Sequences, FiniteSets, TLC

VARIABLES
    psu,       \* the supply: last successfully commanded volt, out, ocp per channel
    func,      \* the function the operator is running, or "none"
    ndirect,   \* how often the operator has run ramp_voltage or reset_HEMT_settings
    after_on,  \* the function run just before this one was turn_on_HEMTS
    pc,        \* position in the function that is running, or "idle"/"returned"/"raised"
    err,       \* the exception that ended the function, or "none"
    req,       \* ramp_voltage's arguments: channel, v_start, v_stop, v_step
    voltages,  \* ramp_voltage's local `voltages`
    i,         \* 1-based index of the `for v in voltages` loop
    cur,       \* ramp_voltage's local `cur`
    data,      \* ramp_voltage's local `data`
    status,    \* reset_HEMT_settings' local `status`: "unset", "False" or "True"
    readback,  \* the values get_channel_voltage returned to reset_HEMT_settings
    cmds,      \* the device calls that succeeded in this run, in order
    trace,     \* the events of this run of the ramp loop, in order
    fault      \* the device call that raised in this run, if any

vars == <<psu, func, ndirect, after_on, pc, err, req, voltages, i, cur, data,
          status, readback, cmds, trace, fault>>

----------------------------------------------------------------------------
(* Bounds of the model *)

\* ramp requests are drawn from v_start, v_stop \in 0..MaxV
MaxV == 2
\* ... and v_step \in -1..MaxStep
MaxStep == 2
\* get_channel_current returns a value in 0..MaxCurrent
MaxCurrent == 1
\* the operator runs ramp_voltage and reset_HEMT_settings at most MaxDirect
\* times in one session (and turn_on_HEMTS and turn_off_HEMTS at will)
MaxDirect == 1

(* Program constants *)

\* v_stop=1.1 of the gate ramps
GateV == 110
\* v_stop=0.7 of the drain ramps
DrainV == 70
\* v_step=0.01, the default of ramp_voltage
DefaultStep == 1
\* OCP=0.005 of channel 1
GateOCP == 5
\* OCP=0.05 of channel 2
DrainOCP == 50

Channels == {1, 2}
Volts == 0..MaxV
Steps == (0 - 1)..MaxStep
Currents == 0..MaxCurrent
Terminated == {"returned", "raised"}

NoReq == [channel |-> 0, v_start |-> 0, v_stop |-> 0, v_step |-> 0]
NoFault == [op |-> "none", step |-> 0, ncmds |-> 0]

----------------------------------------------------------------------------
(* np.arange and the setpoints of a ramp *)

\* ceil(a / b) for b # 0
CeilDiv(a, b) ==
    IF b > 0 THEN 0 - ((0 - a) \div b) ELSE 0 - (a \div (0 - b))

\* mutant: the length is rounded down instead of up
ArangeFloor(start, stop, step) ==
    IF step = 0
    THEN [ok |-> FALSE, vals |-> <<>>]
    ELSE LET n == 0 - CeilDiv(start - stop, step)
             len == IF n > 0 THEN n ELSE 0
         IN [ok |-> TRUE, vals |-> [k \in 1..len |-> start + (k - 1) * step]]

\* np.arange(start, stop, step): raises for step = 0, else holds
\* max(0, ceil((stop - start) / step)) values start + k * step
Arange(start, stop, step) ==
    IF step = 0
    THEN [ok |-> FALSE, vals |-> <<>>]
    ELSE LET n == CeilDiv(stop - start, step)
             len == IF n > 0 THEN n ELSE 0
         IN [ok |-> TRUE, vals |-> [k \in 1..len |-> start + (k - 1) * step]]

\* mutant: the stop of np.arange is not extended by one step
RampVoltagesNoOvershoot(v_start, v_stop, v_step) ==
    IF v_stop >= v_start
    THEN Arange(v_start, v_stop, v_step)
    ELSE Arange(v_start, v_stop, 0 - v_step)

\* mutant: the descending branch keeps the sign of v_step
RampVoltagesSameSign(v_start, v_stop, v_step) ==
    IF v_stop >= v_start
    THEN Arange(v_start, v_stop + v_step, v_step)
    ELSE Arange(v_start, v_stop - v_step, v_step)

\* voltages = np.arange(v_start, v_stop + v_step, v_step) if v_stop >= v_start
\*            else np.arange(v_start, v_stop - v_step, -v_step)
RampVoltages(v_start, v_stop, v_step) ==
    IF v_stop >= v_start
    THEN Arange(v_start, v_stop + v_step, v_step)
    ELSE Arange(v_start, v_stop - v_step, 0 - v_step)

----------------------------------------------------------------------------
(* Python's binding of a call's arguments to the parameters of a def *)

\* mutant: ramp_voltage names its second parameter ch
ParamsCh(f) ==
    CASE f = "ramp_voltage" ->
            <<"psu", "ch", "v_start", "v_stop", "v_step", "delay">>
      [] f = "reset_HEMT_settings" -> <<"HEMT_PSU", "output">>
      [] OTHER -> <<"HEMT_PSU">>

\* the parameter lists of the def statements
Params(f) ==
    CASE f = "ramp_voltage" ->
            <<"psu", "channel", "v_start", "v_stop", "v_step", "delay">>
      [] f = "reset_HEMT_settings" -> <<"HEMT_PSU", "output">>
      [] OTHER -> <<"HEMT_PSU">>

\* how many trailing parameters have a default (v_step=0.01, delay=1)
NDefaults(f) == IF f = "ramp_voltage" THEN 2 ELSE 0

\* a call f(<npos positional arguments>, <keywords kws>) binds iff every keyword
\* names a parameter not already given by position and every parameter without
\* a default is given; otherwise the call raises TypeError
CallBinds(f, npos, kws) ==
    LET ps == Params(f)
        n == Len(ps)
    IN /\ npos <= n
       /\ \A k \in kws : \E j \in (npos + 1)..n : ps[j] = k
       /\ \A j \in (npos + 1)..(n - NDefaults(f)) : ps[j] \in kws

----------------------------------------------------------------------------
(* The supply *)

SetVoltage(p, ch, v) == [p EXCEPT !.volt[ch] = v]
SetOutput(p, ch, b) == [p EXCEPT !.out[ch] = b]
SetOvercurrent(p, ch, a) == [p EXCEPT !.ocp[ch] = a]

Cmd(op, ch, val) == [op |-> op, ch |-> ch, val |-> val]

\* a channel is on when its output is enabled and it carries a non-zero voltage
ChannelOn(ch) == psu.out[ch] /\ psu.volt[ch] # 0
GateOn == ChannelOn(1)
DrainOn == ChannelOn(2)

\* the states the supply may have been left in when the session starts: off or
\* enabled, with nothing, the gate, or the gate and the drain ramped up
InitPSU ==
    {[volt |-> v, out |-> <<o, o>>, ocp |-> <<0, 0>>] :
        v \in {<<0, 0>>, <<GateV, 0>>, <<GateV, DrainV>>}, o \in BOOLEAN}

Init ==
    /\ psu \in InitPSU
    /\ func = "none"
    /\ ndirect = 0
    /\ after_on = FALSE
    /\ pc = "idle"
    /\ err = "none"
    /\ req = NoReq
    /\ voltages = <<>>
    /\ i = 0
    /\ cur = 0
    /\ data = <<>>
    /\ status = "unset"
    /\ readback = <<>>
    /\ cmds = <<>>
    /\ trace = <<>>
    /\ fault = NoFault

\* the operator may run the next function: none is running
CanCall == pc = "idle"

\* the operator runs f: its locals and the logs of the run start empty
Enter(f) ==
    /\ func' = f
    /\ after_on' = (f = "turn_off_HEMTS" /\ after_on)
    /\ i' = 0
    /\ cur' = 0
    /\ data' = <<>>
    /\ status' = "unset"
    /\ readback' = <<>>
    /\ cmds' = <<>>
    /\ trace' = <<>>
    /\ fault' = NoFault

Raise(e) == pc' = "raised" /\ err' = e

\* def ramp_voltage ... data = []: the setpoints are computed, or np.arange raises
StartRamp(channel, v_start, v_stop, v_step) ==
    LET r == RampVoltages(v_start, v_stop, v_step)
    IN /\ req' = [channel |-> channel, v_start |-> v_start,
                  v_stop |-> v_stop, v_step |-> v_step]
       /\ voltages' = r.vals
       /\ pc' = IF r.ok THEN "for" ELSE "raised"
       /\ err' = IF r.ok THEN "none" ELSE "ZeroDivisionError"

----------------------------------------------------------------------------
(* ramp_voltage(psu, channel, v_start, v_stop, v_step, delay) *)

ramp_voltage ==
    /\ CanCall
    /\ ndirect < MaxDirect
    /\ ndirect' = ndirect + 1
    /\ \E ch \in Channels, v_start \in Volts, v_stop \in Volts, v_step \in Steps :
          /\ StartRamp(ch, v_start, v_stop, v_step)
          /\ Enter("ramp_voltage")
    /\ UNCHANGED psu

\* for v in voltages: ... print(); return data
ramp_for ==
    /\ pc = "for"
    /\ i' = i + 1
    /\ pc' = IF i + 1 <= Len(voltages) THEN "set" ELSE "returned"
    /\ UNCHANGED <<psu, func, ndirect, after_on, err, req, voltages, cur, data, status, readback,
                   cmds, trace, fault>>

\* psu.set_channel_voltage(channel, v)
ramp_set ==
    /\ pc = "set"
    /\ psu' = SetVoltage(psu, req.channel, voltages[i])
    /\ cmds' = Append(cmds, Cmd("set", req.channel, voltages[i]))
    /\ trace' = Append(trace, "set")
    /\ pc' = "get"
    /\ UNCHANGED <<func, ndirect, after_on, err, req, voltages, i, cur, data, status, readback, fault>>

\* mutant: the exception of set_channel_voltage is swallowed and the loop goes on
ramp_set_raises_swallowed ==
    /\ pc = "set"
    /\ fault' = [op |-> "set", step |-> i, ncmds |-> Len(cmds)]
    /\ pc' = "get"
    /\ UNCHANGED <<psu, func, ndirect, after_on, err, req, voltages, i, cur, data, status, readback,
                   cmds, trace>>

\* psu.set_channel_voltage(channel, v) raises: the exception leaves ramp_voltage
ramp_set_raises ==
    /\ pc = "set"
    /\ fault' = [op |-> "set", step |-> i, ncmds |-> Len(cmds)]
    /\ Raise("DeviceCommandError")
    /\ UNCHANGED <<psu, func, ndirect, after_on, req, voltages, i, cur, data, status, readback,
                   cmds, trace>>

\* cur = psu.get_channel_current(channel)
ramp_get ==
    /\ pc = "get"
    /\ \E c \in Currents :
          /\ cur' = c
          /\ cmds' = Append(cmds, Cmd("get", req.channel, c))
    /\ trace' = Append(trace, "get")
    /\ pc' = "append"
    /\ UNCHANGED <<psu, func, ndirect, after_on, err, req, voltages, i, data, status, readback, fault>>

\* psu.get_channel_current(channel) raises
ramp_get_raises ==
    /\ pc = "get"
    /\ fault' = [op |-> "get", step |-> i, ncmds |-> Len(cmds)]
    /\ Raise("DeviceCommandError")
    /\ UNCHANGED <<psu, func, ndirect, after_on, req, voltages, i, cur, data, status, readback,
                   cmds, trace>>

\* mutant: the pair is recorded with the current of the previous setpoint
ramp_append_stale ==
    /\ pc = "append"
    /\ data' = Append(data, <<voltages[i],
                              IF data = <<>> THEN cur ELSE data[Len(data)][2]>>)
    /\ trace' = Append(trace, "record")
    /\ pc' = "sleep"
    /\ UNCHANGED <<psu, func, ndirect, after_on, err, req, voltages, i, cur, status, readback,
                   cmds, fault>>

\* mutant: the loop goes on to the next setpoint without the delay
ramp_append_no_sleep ==
    /\ pc = "append"
    /\ data' = Append(data, <<voltages[i], cur>>)
    /\ trace' = Append(trace, "record")
    /\ pc' = "for"
    /\ UNCHANGED <<psu, func, ndirect, after_on, err, req, voltages, i, cur, status, readback,
                   cmds, fault>>

\* data.append((v, cur))
ramp_append ==
    /\ pc = "append"
    /\ data' = Append(data, <<voltages[i], cur>>)
    /\ trace' = Append(trace, "record")
    /\ pc' = "sleep"
    /\ UNCHANGED <<psu, func, ndirect, after_on, err, req, voltages, i, cur, status, readback,
                   cmds, fault>>

\* time.sleep(delay)
ramp_sleep ==
    /\ pc = "sleep"
    /\ trace' = Append(trace, "sleep")
    /\ pc' = "for"
    /\ UNCHANGED <<psu, func, ndirect, after_on, err, req, voltages, i, cur, data, status, readback,
                   cmds, fault>>

----------------------------------------------------------------------------
(* reset_HEMT_settings(HEMT_PSU, output) *)

reset_HEMT_settings ==
    /\ CanCall
    /\ ndirect < MaxDirect
    /\ ndirect' = ndirect + 1
    /\ Enter("reset_HEMT_settings")
    /\ pc' = "ocp_1"
    /\ err' = "none"
    /\ req' = NoReq
    /\ voltages' = <<>>
    /\ UNCHANGED psu

\* HEMT_PSU.set_overcurrent(ch=1, OCP=0.005)
reset_set_overcurrent_1 ==
    /\ pc = "ocp_1"
    /\ psu' = SetOvercurrent(psu, 1, GateOCP)
    /\ cmds' = Append(cmds, Cmd("set_overcurrent", 1, GateOCP))
    /\ pc' = "ocp_2"
    /\ UNCHANGED <<func, ndirect, after_on, err, req, voltages, i, cur, data, status, readback,
                   trace, fault>>

\* HEMT_PSU.set_overcurrent(ch=2, OCP=0.05)
reset_set_overcurrent_2 ==
    /\ pc = "ocp_2"
    /\ psu' = SetOvercurrent(psu, 2, DrainOCP)
    /\ cmds' = Append(cmds, Cmd("set_overcurrent", 2, DrainOCP))
    /\ pc' = "get_output"
    /\ UNCHANGED <<func, ndirect, after_on, err, req, voltages, i, cur, data, status, readback,
                   trace, fault>>

\* mutant: the status is read and not asserted
reset_get_output_unchecked ==
    /\ pc = "get_output"
    /\ \E s \in {"False", "True"} :
          /\ status' = s
          /\ cmds' = Append(cmds, Cmd("get_output", 0, IF s = "True" THEN 1 ELSE 0))
    /\ pc' = "zero_1"
    /\ UNCHANGED <<psu, func, ndirect, after_on, err, req, voltages, i, cur, data, readback, trace,
                   fault>>

\* status = HEMT_PSU.get_output(); assert status is False
reset_get_output ==
    /\ pc = "get_output"
    /\ \E s \in {"False", "True"} :
          /\ status' = s
          /\ cmds' = Append(cmds, Cmd("get_output", 0, IF s = "True" THEN 1 ELSE 0))
          /\ IF s = "False"
             THEN pc' = "zero_1" /\ err' = err
             ELSE Raise("AssertionError")
    /\ UNCHANGED <<psu, func, ndirect, after_on, req, voltages, i, cur, data, readback, trace, fault>>

\* HEMT_PSU.set_channel_voltage(ch=1, voltage=0)
reset_set_voltage_1 ==
    /\ pc = "zero_1"
    /\ psu' = SetVoltage(psu, 1, 0)
    /\ cmds' = Append(cmds, Cmd("set", 1, 0))
    /\ pc' = "zero_2"
    /\ UNCHANGED <<func, ndirect, after_on, err, req, voltages, i, cur, data, status, readback,
                   trace, fault>>

\* HEMT_PSU.set_channel_voltage(ch=2, voltage=0)
reset_set_voltage_2 ==
    /\ pc = "zero_2"
    /\ psu' = SetVoltage(psu, 2, 0)
    /\ cmds' = Append(cmds, Cmd("set", 2, 0))
    /\ pc' = "assert_1"
    /\ UNCHANGED <<func, ndirect, after_on, err, req, voltages, i, cur, data, status, readback,
                   trace, fault>>

\* what get_channel_voltage may return: the commanded voltage, or a reading
\* that is 0.01 V off
Readings(ch) == {psu.volt[ch], psu.volt[ch] + 1}

\* assert HEMT_PSU.get_channel_voltage(ch=c) == 0, and the statement after it
ReadbackAssert(c, next) ==
    \E r \in Readings(c) :
        /\ readback' = Append(readback, r)
        /\ cmds' = Append(cmds, Cmd("get_voltage", c, r))
        /\ IF r = 0
           THEN pc' = next /\ err' = err
           ELSE Raise("AssertionError")

\* assert HEMT_PSU.get_channel_voltage(ch=1) == 0
reset_assert_voltage_1 ==
    /\ pc = "assert_1"
    /\ ReadbackAssert(1, "assert_2")
    /\ UNCHANGED <<psu, func, ndirect, after_on, req, voltages, i, cur, data, status, trace, fault>>

\* assert HEMT_PSU.get_channel_voltage(ch=2) == 0
reset_assert_voltage_2 ==
    /\ pc = "assert_2"
    /\ ReadbackAssert(2, "enable_1")
    /\ UNCHANGED <<psu, func, ndirect, after_on, req, voltages, i, cur, data, status, trace, fault>>

\* HEMT_PSU.set_output(ch=1, output=True)
reset_set_output_1 ==
    /\ pc = "enable_1"
    /\ psu' = SetOutput(psu, 1, TRUE)
    /\ cmds' = Append(cmds, Cmd("set_output", 1, 1))
    /\ pc' = "enable_2"
    /\ UNCHANGED <<func, ndirect, after_on, err, req, voltages, i, cur, data, status, readback,
                   trace, fault>>

\* HEMT_PSU.set_output(ch=2, output=True), and the function returns
reset_set_output_2 ==
    /\ pc = "enable_2"
    /\ psu' = SetOutput(psu, 2, TRUE)
    /\ cmds' = Append(cmds, Cmd("set_output", 2, 1))
    /\ pc' = "returned"
    /\ UNCHANGED <<func, ndirect, after_on, err, req, voltages, i, cur, data, status, readback,
                   trace, fault>>

\* the positions of reset_HEMT_settings at which a call to the supply is next
ResetDeviceCalls ==
    {"ocp_1", "ocp_2", "get_output", "zero_1", "zero_2", "assert_1", "assert_2",
     "enable_1", "enable_2"}

\* a call to the supply raises inside reset_HEMT_settings: nothing catches it
reset_device_raises ==
    /\ pc \in ResetDeviceCalls
    /\ fault' = [op |-> pc, step |-> 0, ncmds |-> Len(cmds)]
    /\ Raise("DeviceCommandError")
    /\ UNCHANGED <<psu, func, ndirect, after_on, req, voltages, i, cur, data, status, readback,
                   cmds, trace>>

----------------------------------------------------------------------------
(* turn_on_HEMTS(HEMT_PSU) and turn_off_HEMTS(HEMT_PSU) *)

\* reset_HEMT_settings(): the first statement of turn_on_HEMTS gives none of
\* the two parameters of reset_HEMT_settings, so the call raises TypeError and
\* the statements after it are never reached
turn_on_HEMTS ==
    /\ CanCall
    /\ Enter("turn_on_HEMTS")
    /\ req' = NoReq
    /\ voltages' = <<>>
    /\ IF CallBinds("reset_HEMT_settings", 0, {})
       THEN pc' = "ocp_1" /\ err' = "none"
       ELSE Raise("TypeError")
    /\ UNCHANGED <<psu, ndirect>>

\* ramp_voltage(HEMT_PSU, ch=1, v_start=0, v_stop=1.1): the first statement of
\* turn_off_HEMTS passes the keyword ch, which ramp_voltage does not have, so
\* the call raises TypeError and the statements after it are never reached
turn_off_HEMTS ==
    /\ CanCall
    /\ Enter("turn_off_HEMTS")
    /\ IF CallBinds("ramp_voltage", 1, {"ch", "v_start", "v_stop"})
       THEN StartRamp(1, 0, GateV, DefaultStep)
       ELSE /\ Raise("TypeError")
            /\ req' = NoReq
            /\ voltages' = <<>>
    /\ UNCHANGED <<psu, ndirect>>

----------------------------------------------------------------------------
(* The notebook *)

\* the cell that ran the function ends: the function's frame is gone, and the
\* operator may run the next cell
cell_ends ==
    /\ pc \in Terminated
    /\ pc' = "idle"
    /\ func' = "none"
    /\ after_on' = (func = "turn_on_HEMTS")
    /\ err' = "none"
    /\ req' = NoReq
    /\ voltages' = <<>>
    /\ i' = 0
    /\ cur' = 0
    /\ data' = <<>>
    /\ status' = "unset"
    /\ readback' = <<>>
    /\ cmds' = <<>>
    /\ trace' = <<>>
    /\ fault' = NoFault
    /\ UNCHANGED <<psu, ndirect>>

Next ==
    \/ ramp_voltage
    \/ ramp_for
    \/ ramp_set
    \/ ramp_set_raises
    \/ ramp_get
    \/ ramp_get_raises
    \/ ramp_append
    \/ ramp_sleep
    \/ reset_HEMT_settings
    \/ reset_set_overcurrent_1
    \/ reset_set_overcurrent_2
    \/ reset_get_output
    \/ reset_set_voltage_1
    \/ reset_set_voltage_2
    \/ reset_assert_voltage_1
    \/ reset_assert_voltage_2
    \/ reset_set_output_1
    \/ reset_set_output_2
    \/ reset_device_raises
    \/ turn_on_HEMTS
    \/ turn_off_HEMTS
    \/ cell_ends

Spec == Init /\ [][Next]_vars

----------------------------------------------------------------------------
(* Properties *)

\* the function that is running or has just ended
CurrentFunc == func

\* a run of ramp_voltage that was given a valid request (v_step > 0)
ValidRamp == CurrentFunc = "ramp_voltage" /\ req.v_step > 0

\* +1 for an ascending request (v_stop >= v_start), -1 for a descending one
Dir == IF req.v_stop >= req.v_start THEN 1 ELSE 0 - 1

\* the voltages of the set_channel_voltage calls of this run, in order
Commanded ==
    LET sets == SelectSeq(cmds, LAMBDA c : c.op = "set")
    IN [k \in 1..Len(sets) |-> sets[k].val]

\* s starts at v_start, and each element is the one before plus one step in
\* the direction of the request
StepsFromStart(s) ==
    /\ s # <<>> => s[1] = req.v_start
    /\ \A k \in 1..(Len(s) - 1) : s[k + 1] - s[k] = Dir * req.v_step
    /\ \A j, k \in 1..Len(s) : j < k => Dir * s[j] < Dir * s[k]

\* the smallest n with n * b >= a, for a >= 0 and b > 0
CeilQ(a, b) == CHOOSE n \in 0..a : n * b >= a /\ (n = 0 \/ (n - 1) * b < a)

Abs(x) == IF x < 0 THEN 0 - x ELSE x

\* C1: for a valid request the voltages commanded and the voltages returned
\* start at v_start, are strictly monotonic in the direction of the request and
\* differ by exactly one step from one to the next
C1_StrictlyMonotonicFromStart ==
    ValidRamp =>
        /\ StepsFromStart(Commanded)
        /\ pc = "returned" =>
              /\ data # <<>>
              /\ Commanded = [k \in 1..Len(data) |-> data[k][1]]

C1_Witness ==
    /\ ValidRamp
    /\ pc = "returned"
    /\ req.v_stop < req.v_start
    /\ Len(data) >= 3

C4_InvalidRampBounds ==
    CurrentFunc = "ramp_voltage" /\ req.v_step <= 0 /\ pc \in Terminated =>
        pc = "raised" /\ err = "InvalidRampBounds"

\* C5: once a call to the supply has raised in a run of ramp_voltage, the run
\* is over and no further call reaches the supply; if it was the set call of
\* step k, the supply is at the voltage of step k-1
C5_AbortOnDeviceFailure ==
    CurrentFunc = "ramp_voltage" /\ fault.op # "none" =>
        /\ pc = "raised"
        /\ err = "DeviceCommandError"
        /\ Len(cmds) = fault.ncmds
        /\ fault.op = "set" /\ fault.step >= 2 =>
              psu.volt[req.channel] = voltages[fault.step - 1]
        /\ fault.op = "get" => psu.volt[req.channel] = voltages[fault.step]

C5_Witness ==
    /\ CurrentFunc = "ramp_voltage"
    /\ fault.op = "set"
    /\ fault.step >= 2
    /\ pc = "raised"

\* C6: the k-th recorded point pairs the k-th commanded voltage with the value
\* the k-th get_channel_current returned, and a ramp that returned has one
\* point per setpoint
C6_PointsAreDeviceReadings ==
    CurrentFunc = "ramp_voltage" =>
        /\ \A k \in 1..Len(data) :
              /\ 2 * k <= Len(cmds)
              /\ cmds[2 * k - 1] = Cmd("set", req.channel, data[k][1])
              /\ cmds[2 * k] = Cmd("get", req.channel, data[k][2])
              /\ data[k][1] = voltages[k]
        /\ pc = "returned" =>
              /\ Len(data) = Len(voltages)
              /\ Len(cmds) = 2 * Len(data)

C6_Witness ==
    /\ CurrentFunc = "ramp_voltage"
    /\ pc = "returned"
    /\ Len(data) >= 2
    /\ data[1][2] # data[2][2]

C8_TurnOffRampsDown ==
    /\ CurrentFunc = "turn_off_HEMTS" =>
          \A k \in 1..Len(cmds) :
              cmds[k].op = "set" /\ cmds[k].ch = 1 =>
                  \E j \in 1..(k - 1) : cmds[j] = Cmd("set", 2, 0)
    /\ CurrentFunc = "turn_off_HEMTS" /\ after_on /\ pc \in Terminated =>
          /\ pc = "returned"
          /\ psu.volt[1] = 0
          /\ psu.volt[2] = 0

\* the order of the events of one setpoint
Order == <<"set", "get", "record", "sleep">>

\* C9: the events of a run of ramp_voltage are set, get, record, sleep for each
\* setpoint in turn, on the channel of the request, and a set is issued only
\* when the four events of every earlier setpoint are over
C9_EventOrder ==
    CurrentFunc = "ramp_voltage" =>
        /\ \A j \in 1..Len(trace) : trace[j] = Order[((j - 1) % 4) + 1]
        /\ \A k \in 1..Len(cmds) : cmds[k].ch = req.channel
        /\ pc = "set" => Len(trace) = 4 * (i - 1)

C9_Witness ==
    /\ CurrentFunc = "ramp_voltage"
    /\ Len(trace) = 5
    /\ pc = "get"

\* the run has enabled an output
OutputEnabled == \E k \in 1..Len(cmds) : cmds[k].op = "set_output"
\* the run has commanded a voltage
SetAVoltage == \E k \in 1..Len(cmds) : cmds[k].op = "set"

\* C10: reset_HEMT_settings enables an output only after the output was read
\* as off and both channels were set to 0 and read back as 0; an output read as
\* on ends it with AssertionError before any voltage is commanded, and a
\* non-zero read-back ends it with AssertionError before any output is enabled
C10_EnableOnlyAfterChecks ==
    CurrentFunc = "reset_HEMT_settings" =>
        /\ OutputEnabled =>
              /\ status = "False"
              /\ readback = <<0, 0>>
              /\ psu.volt[1] = 0 /\ psu.volt[2] = 0
              /\ \E j, k \in 1..Len(cmds) :
                    /\ j < k
                    /\ cmds[j] = Cmd("set", 1, 0)
                    /\ cmds[k] = Cmd("set", 2, 0)
        /\ status = "True" =>
              pc = "raised" /\ err = "AssertionError" /\ ~OutputEnabled /\ ~SetAVoltage
        /\ (\E k \in 1..Len(readback) : readback[k] # 0) =>
              pc = "raised" /\ err = "AssertionError" /\ ~OutputEnabled

C10_Witness ==
    /\ CurrentFunc = "reset_HEMT_settings"
    /\ pc = "returned"
    /\ psu.out[1] /\ psu.out[2]
    /\ status = "False"

====
